---------------------------- MODULE Spec2Model ----------------------------
(***************************************************************************)
(* A model of django_psycopg2_pool/gevent/psycopg2_pool.py: the bounded    *)
(* connection pool (DatabaseConnectionPool) and its transactional scopes   *)
(* connection() and cursor(), run by cooperatively scheduled greenlets.    *)
(*                                                                         *)
(* Scheduling.  A greenlet runs without interruption until it waits: in    *)
(* the blocking pool.get() of get(), or on the socket of its connection    *)
(* (the connection factory, the unit of work, commit(), rollback()).  One  *)
(* action of the model is one such uninterrupted run.                      *)
(*                                                                         *)
(* The queue.  self.pool is a gevent Queue without a size limit.  put()    *)
(* appends the item and, when greenlets wait in get(), schedules the       *)
(* queue's unlock callback on the hub; the item stays in the queue until   *)
(* the hub runs that callback, which hands the head item to the first      *)
(* waiting greenlet.  get() on a non-empty queue returns the head item at  *)
(* once, whoever waits.                                                    *)
(*                                                                         *)
(* The driver.  A connection has a closed flag and an isolation level.     *)
(* The unit of work, commit() and rollback() each succeed or raise, and a  *)
(* raising operation leaves the connection open or closed.  The closed     *)
(* flag changes only in an operation on the connection or in close().      *)
(* set_isolation_level() and close() are taken to succeed.                 *)
(*                                                                         *)
(* The other parts.  The construction of a pool (ConstructSpec), the       *)
(* generator fetchiter() (FetchSpec) and the wait callback installed in    *)
(* psycopg2 (WaitSpec, WaitFairSpec) are specified each on its own, on the *)
(* variables built, fetch and wait, which a pool in use leaves alone.      *)
(***************************************************************************)
EXTENDS Integers, Sequences, FiniteSets, TLC

\* ------------------------------------------------------------------ bounds

\* DatabaseConnectionPool(maxsize=...): the ceiling on created connections.
maxsize == 2

\* The number of greenlets that borrow from the pool.
NumTasks == 3

\* The number of calls to get() a run makes (it caps the counter gets).
MaxGets == 4

\* The number of those calls, from the first, whose scope may ask for an
\* isolation level; the scopes of the later calls ask for none.
MaxLevelGets == 1

\* The numbers tried as maxsize at construction are -MaxArg .. MaxArg.
MaxArg == 6

\* def __init__(self, maxsize=100)
DefaultMaxsize == 100

\* The longest result set fetchiter() is run on, and the largest batch size
\* (cursor.arraysize) of its cursor.
MaxRows == 5
MaxBatch == 3

\* The number of times conn.poll() reports POLL_READ or POLL_WRITE during one
\* call of the wait callback, before it reports anything else.
MaxPolls == 4

\* Greenlets are numbered in the order of their first call to get().
Tasks == 1 .. NumTasks

\* Connections are numbered in the order the factory returns them; every
\* one of them is made by its own call to get().
Conns == 1 .. MaxGets

\* conn = None
NoConn == 0

\* conn.isolation_level: psycopg2 connections start at READ COMMITTED.
Levels == {"read_committed", "serializable"}

DefaultLevel == "read_committed"

\* isolation_level=None
NoLevel == "none"

VARIABLES
    size,       \* self.size
    gets,       \* self.gets
    puts,       \* self.puts
    pool,       \* self.pool: the items of the queue, head first
    getters,    \* self.pool: the greenlets waiting in pool.get(), first first
    made,       \* the number of connections the factory has returned
    closed,     \* conn.closed, per connection
    level,      \* conn.isolation_level, per connection
    pc,         \* where each greenlet is
    conn,       \* the local conn of each greenlet's scope (NoConn: None)
    iso,        \* the local isolation_level of each greenlet's scope
    borrow,     \* what the scope each greenlet is in has done so far
    last,       \* the scope that the last step ended, and how it ended
    spawned,    \* the number of greenlets that have called get()
    built,      \* the last construction of a pool: its argument and its outcome
    fetch,      \* one run of the generator fetchiter()
    wait        \* one call of gevent_wait_callback()

vars == <<size, gets, puts, pool, getters, made, closed, level, pc, conn, iso, borrow,
          last, spawned, built, fetch, wait>>

\* The state of a pool in use, which the other parts of the module leave
\* alone, and the state of those parts, which the pool's operations leave
\* alone.
inuse == <<size, gets, puts, pool, getters, made, closed, level, pc, conn, iso, borrow,
           last, spawned>>

elsewhere == <<built, fetch, wait>>

\* ----------------------------------------------------------------- helpers

Range(s) == {s[i] : i \in 1 .. Len(s)}

Occurrences(s, x) == Cardinality({i \in 1 .. Len(s) : s[i] = x})

\* The position of x in s (0 when absent).
Position(s, x) == IF x \in Range(s) THEN CHOOSE i \in 1 .. Len(s) : s[i] = x ELSE 0

\* The record of a scope that has done nothing yet, entered asking for
\* isolation level l: the level asked for, the connection borrowed and its
\* level when get() returned it, how the unit of work ended ("ok", "raised")
\* and whether the connection was closed then, the calls made on the
\* connection (set_isolation_level, commit, rollback) and to put(), whether
\* closeall() ran, whether a failure went to the hub's handle_error, and the
\* error that left the scope.
NewBorrow(l) ==
    [asked |-> l, entry |-> NoLevel, c |-> NoConn, uow |-> "none", dead |-> FALSE,
     sets |-> 0, commits |-> 0, rollbacks |-> 0, puts |-> 0, flushed |-> FALSE,
     reported |-> FALSE, err |-> "none"]

\* No scope ended in the last step.
NoExit == [ended |-> FALSE, b |-> NewBorrow(NoLevel), idle |-> {}]

\* No pool has been constructed, no generator started, no callback called.
NotBuilt == [arg |-> [kind |-> "omitted", val |-> 0], cls |-> "none", err |-> "none",
             exists |-> FALSE, maxsize |-> [kind |-> "NoneType", val |-> 0]]

NoFetch == [at |-> "none", rows |-> <<>>, b |-> 1, rest |-> <<>>, buf |-> <<>>,
            out |-> <<>>, fetches |-> 0, empties |-> 0, again |-> FALSE]

NoWait == [at |-> "none", timeout |-> FALSE, log |-> <<>>, err |-> "none"]

\* The pool after DatabaseConnectionPool.__init__.
PoolInit ==
    /\ size = 0
    /\ gets = 0
    /\ puts = 0
    /\ pool = <<>>
    /\ getters = <<>>
    /\ made = 0
    /\ closed = [c \in Conns |-> FALSE]
    /\ level = [c \in Conns |-> DefaultLevel]
    /\ pc = [t \in Tasks |-> "idle"]
    /\ conn = [t \in Tasks |-> NoConn]
    /\ iso = [t \in Tasks |-> NoLevel]
    /\ borrow = [t \in Tasks |-> NewBorrow(NoLevel)]
    /\ last = NoExit
    /\ spawned = 0

Init ==
    /\ PoolInit
    /\ built = NotBuilt
    /\ fetch = NoFetch
    /\ wait = NoWait

\* ------------------------------------------------------------ get(), put()

\* A get() that compares with ">": "if self.size > self.maxsize or pool_size".
get_creates_at_ceiling(sz, pool_size) == sz > maxsize \/ pool_size > 0

\* A get() that forgets the queue: "if self.size >= self.maxsize".
get_ignores_pool(sz, pool_size) == sz >= maxsize

\* A get() that forgets the ceiling: "if pool_size".
get_ignores_maxsize(sz, pool_size) == pool_size > 0

\* get(): "if self.size >= self.maxsize or pool_size" takes from the queue.
get_takes_from_pool(sz, pool_size) == sz >= maxsize \/ pool_size > 0

\* A queue whose get() returns the head item and leaves it in the queue.
queue_get_keeps_item(q) == q

\* pool.get() on a non-empty queue, and the unlock callback: the queue that is
\* left once the head item has been taken.
queue_after_get(q) == Tail(q)

\* put(): self.pool.put(item).
queue_after_put(q, item) == Append(q, item)

\* A closeall() that closes the checked-out connections as well.
closeall_closes_held(cl, q) == [x \in Conns |-> TRUE]

\* closeall(): every idle connection is taken from the queue and closed.
closeall_closed(cl, q) == [x \in Conns |-> cl[x] \/ x \in Range(q)]

closeall_pool(q) == <<>>

\* ------------------------------------------------- connection(), cursor()

\* An entry that sets every requested level, without comparing it with the
\* connection's.
isolation_always_set(cur, l) ==
    IF l /= NoLevel
    THEN [iso |-> l, level |-> l, sets |-> 1]
    ELSE [iso |-> NoLevel, level |-> cur, sets |-> 0]

\* The scope's entry: set the requested level unless it is None or is the
\* connection's level already, in which case the local is set to None.
isolation_on_entry(cur, l) ==
    IF l /= NoLevel
    THEN IF cur = l
         THEN [iso |-> NoLevel, level |-> cur, sets |-> 0]
         ELSE [iso |-> l, level |-> l, sets |-> 1]
    ELSE [iso |-> NoLevel, level |-> cur, sets |-> 0]

\* The finally clause: "if isolation_level is not None:
\* conn.set_isolation_level(isolation_level)", with the local of the scope.
isolation_on_cleanup(cur, l) ==
    IF l /= NoLevel
    THEN [level |-> l, sets |-> 1]
    ELSE [level |-> cur, sets |-> 0]

\* A finally clause that tests the closed flag the wrong way round.
finally_puts_closed(c, cl) == c /= NoConn /\ cl[c]

\* A finally clause that forgets the closed flag: "if conn is not None".
finally_puts_any(c, cl) == c /= NoConn

\* The finally clause: "if conn is not None and not conn.closed".
finally_puts(c, cl) == c /= NoConn /\ ~cl[c]

\* A _rollback() that returns the connection after a failed rollback() too.
rollback_keeps_conn(c, ok) == c

\* A _rollback() that ends without "return conn".
rollback_returns_none(c, ok) == NoConn

\* _rollback(): the connection when rollback() succeeded, None when it raised.
rollback_result(c, ok) == IF ok THEN c ELSE NoConn

\* get() has returned connection c to greenlet t, whose scope asked for level
\* l: the entry of the scope up to the yield of the unit of work.
Started(t, c, l) ==
    LET e == isolation_on_entry(level[c], l)
    IN  /\ pc' = [pc EXCEPT ![t] = "working"]
        /\ conn' = [conn EXCEPT ![t] = c]
        /\ iso' = [iso EXCEPT ![t] = e.iso]
        /\ level' = [level EXCEPT ![c] = e.level]
        /\ borrow' = [borrow EXCEPT ![t] =
                         [NewBorrow(l) EXCEPT !.entry = level[c], !.c = c,
                                              !.sets = e.sets]]
        /\ last' = NoExit

\* The finally clause and the exit of the scope of greenlet t: c is the
\* local conn, q and cl the queue and the closed flags as the scope's
\* earlier clauses left them, b the record of the scope.  last keeps that
\* record and, when closeall() ran, the connections that were idle then.
Finally(t, c, q, cl, b) ==
    LET put == finally_puts(c, cl)
        r == IF put THEN isolation_on_cleanup(level[c], iso[t])
                    ELSE [level |-> DefaultLevel, sets |-> 0]
    IN  /\ closed' = cl
        /\ pool' = IF put THEN queue_after_put(q, c) ELSE q
        /\ puts' = IF put THEN puts + 1 ELSE puts
        /\ level' = IF put THEN [level EXCEPT ![c] = r.level] ELSE level
        /\ last' = [ended |-> TRUE,
                    b |-> [b EXCEPT !.puts = IF put THEN @ + 1 ELSE @,
                                    !.sets = @ + r.sets],
                    idle |-> IF b.flushed THEN Range(pool) ELSE {}]
        /\ borrow' = [borrow EXCEPT ![t] = NewBorrow(NoLevel)]
        /\ pc' = [pc EXCEPT ![t] = "idle"]
        /\ conn' = [conn EXCEPT ![t] = NoConn]
        /\ iso' = [iso EXCEPT ![t] = NoLevel]
        /\ UNCHANGED <<size, gets, getters, made, spawned, elsewhere>>

\* conn = self.get(), first run: count the call, then reuse, wait or create.
Get(t, l) ==
    /\ pc[t] = "idle"
    /\ gets < MaxGets
    /\ l /= NoLevel => gets < MaxLevelGets
    /\ t <= spawned + 1
    /\ spawned' = IF t > spawned THEN t ELSE spawned
    /\ UNCHANGED elsewhere
    /\ gets' = gets + 1
    /\ IF get_takes_from_pool(size, Len(pool))
       THEN IF Len(pool) > 0
            THEN /\ pool' = queue_after_get(pool)
                 /\ Started(t, Head(pool), l)
                 /\ UNCHANGED <<size, puts, getters, made, closed>>
            ELSE /\ getters' = Append(getters, t)
                 /\ pc' = [pc EXCEPT ![t] = "waiting"]
                 /\ iso' = [iso EXCEPT ![t] = l]
                 /\ borrow' = [borrow EXCEPT ![t] = NewBorrow(l)]
                 /\ last' = NoExit
                 /\ UNCHANGED <<size, puts, pool, made, closed, level, conn>>
       ELSE /\ size' = size + 1
            /\ pc' = [pc EXCEPT ![t] = "creating"]
            /\ iso' = [iso EXCEPT ![t] = l]
            /\ borrow' = [borrow EXCEPT ![t] = NewBorrow(l)]
            /\ last' = NoExit
            /\ UNCHANGED <<puts, pool, getters, made, closed, level, conn>>

\* with pool.connection(isolation_level=l) as conn: ...
connection(t, l) == Get(t, l)

\* with pool.cursor(isolation_level=l) as cursor: ...
cursor(t, l) == Get(t, l)

\* self.create_connection() returns a new connection.
create_connection(t) ==
    /\ pc[t] = "creating"
    /\ made < MaxGets
    /\ made' = made + 1
    /\ Started(t, made + 1, iso[t])
    /\ UNCHANGED <<size, gets, puts, pool, getters, closed, spawned, elsewhere>>

\* A get() that keeps the slot of a failed factory call.
size_kept_on_failure(sz) == sz

\* get(): "except: self.size -= 1".
size_after_failure(sz) == sz - 1

\* self.create_connection() raises: "self.size -= 1; raise".
create_connection_fails(t) ==
    /\ pc[t] = "creating"
    /\ size' = size_after_failure(size)
    /\ pc' = [pc EXCEPT ![t] = "idle"]
    /\ iso' = [iso EXCEPT ![t] = NoLevel]
    /\ last' = [ended |-> TRUE, b |-> [borrow[t] EXCEPT !.err = "CreationError"],
                idle |-> {}]
    /\ borrow' = [borrow EXCEPT ![t] = NewBorrow(NoLevel)]
    /\ UNCHANGED <<gets, puts, pool, getters, made, closed, level, conn, spawned, elsewhere>>

\* The hub runs the queue's unlock callback: the first waiting greenlet is
\* switched to and takes the head item.
Unlock ==
    /\ Len(pool) > 0
    /\ Len(getters) > 0
    /\ pool' = queue_after_get(pool)
    /\ getters' = Tail(getters)
    /\ Started(Head(getters), Head(pool), iso[Head(getters)])
    /\ UNCHANGED <<size, gets, puts, made, closed, spawned, elsewhere>>

\* The unit of work returns and the connection is open: conn.commit() starts.
WorkDone(t) ==
    /\ pc[t] = "working"
    /\ pc' = [pc EXCEPT ![t] = "commit"]
    /\ borrow' = [borrow EXCEPT ![t] = [@ EXCEPT !.uow = "ok", !.commits = @ + 1]]
    /\ last' = NoExit
    /\ UNCHANGED <<size, gets, puts, pool, getters, made, closed, level, conn, iso,
                   spawned, elsewhere>>

\* The unit of work returns and the connection is closed: OperationalError
\* "Cannot commit because connection was closed".
WorkDoneClosed(t) ==
    /\ pc[t] = "working"
    /\ Finally(t, conn[t], pool, [closed EXCEPT ![conn[t]] = TRUE],
               [borrow[t] EXCEPT !.uow = "ok", !.dead = TRUE,
                                 !.err = "CommitOnClosedError"])

\* The unit of work raises and the connection is open: conn.rollback() starts.
WorkRaises(t) ==
    /\ pc[t] = "working"
    /\ pc' = [pc EXCEPT ![t] = "rollback"]
    /\ borrow' = [borrow EXCEPT ![t] = [@ EXCEPT !.uow = "raised", !.rollbacks = @ + 1]]
    /\ last' = NoExit
    /\ UNCHANGED <<size, gets, puts, pool, getters, made, closed, level, conn, iso,
                   spawned, elsewhere>>

\* The unit of work raises and the connection is closed: "conn = None;
\* self.closeall(); raise".
WorkRaisesClosed(t) ==
    /\ pc[t] = "working"
    /\ Finally(t, NoConn, closeall_pool(pool),
               closeall_closed([closed EXCEPT ![conn[t]] = TRUE], pool),
               [borrow[t] EXCEPT !.uow = "raised", !.dead = TRUE, !.flushed = TRUE,
                                 !.err = "UnitOfWorkError"])

\* conn.commit() returns.
CommitDone(t) ==
    /\ pc[t] = "commit"
    /\ Finally(t, conn[t], pool, closed, borrow[t])

\* conn.commit() raises, leaving the connection open or closed.
CommitRaises(t, dies) ==
    /\ pc[t] = "commit"
    /\ Finally(t, conn[t], pool, [closed EXCEPT ![conn[t]] = @ \/ dies],
               [borrow[t] EXCEPT !.err = "CommitError"])

\* conn.rollback() returns, or raises leaving the connection open or closed;
\* the failure goes to the hub's handle_error and the scope re-raises.
RollbackEnds(t, ok, dies) ==
    /\ pc[t] = "rollback"
    /\ ok => ~dies
    /\ Finally(t, rollback_result(conn[t], ok), pool,
               [closed EXCEPT ![conn[t]] = @ \/ dies],
               [borrow[t] EXCEPT !.reported = ~ok, !.err = "UnitOfWorkError"])

Next ==
    \/ \E t \in Tasks, l \in Levels \cup {NoLevel} : connection(t, l)
    \/ \E t \in Tasks, l \in Levels \cup {NoLevel} : cursor(t, l)
    \/ \E t \in Tasks : create_connection(t)
    \/ \E t \in Tasks : create_connection_fails(t)
    \/ Unlock
    \/ \E t \in Tasks : WorkDone(t)
    \/ \E t \in Tasks : WorkDoneClosed(t)
    \/ \E t \in Tasks : WorkRaises(t)
    \/ \E t \in Tasks : WorkRaisesClosed(t)
    \/ \E t \in Tasks : CommitDone(t)
    \/ \E t \in Tasks, dies \in BOOLEAN : CommitRaises(t, dies)
    \/ \E t \in Tasks, ok \in BOOLEAN, dies \in BOOLEAN : RollbackEnds(t, ok, dies)

Spec == Init /\ [][Next]_vars

\* The scheduler is fair to every greenlet that can run: a pending factory
\* call, unit of work, commit() or rollback() ends, and the hub runs the
\* queue's unlock callback.  No greenlet has to enter another scope.
Resume(t) ==
    \/ create_connection(t)
    \/ create_connection_fails(t)
    \/ WorkDone(t)
    \/ WorkDoneClosed(t)
    \/ WorkRaises(t)
    \/ WorkRaisesClosed(t)
    \/ CommitDone(t)
    \/ \E dies \in BOOLEAN : CommitRaises(t, dies)
    \/ \E ok \in BOOLEAN, dies \in BOOLEAN : RollbackEnds(t, ok, dies)

FairSpec ==
    /\ Spec
    /\ \A t \in Tasks : WF_vars(Resume(t))
    /\ WF_vars(Unlock)

\* ------------------------------------------------------------ construction

\* The values a caller may pass as maxsize: a Python value is its type and,
\* for a number, its value.  None is Python's None; Omitted stands for an
\* argument that the caller left out.
None == [kind |-> "NoneType", val |-> 0]

Omitted == [kind |-> "omitted", val |-> 0]

Values ==
    [kind : {"int", "long", "float", "str"}, val : (0 - MaxArg) .. MaxArg]
        \cup [kind : {"bool"}, val : {0, 1}]
        \cup {None}

\* isinstance(v, (int, long)); bool is a subclass of int.
isinstance_int_long(v) == v.kind \in {"int", "long", "bool"}

\* The default of the parameter maxsize of DatabaseConnectionPool.__init__.
maxsize_default == [kind |-> "int", val |-> DefaultMaxsize]

\* kwargs.pop('maxsize', None)
kwargs_pop_maxsize(a) == IF a = Omitted THEN None ELSE a

\* DatabaseConnectionPool.__init__(self, m), called on an object of class
\* cls with argument a: TypeError unless m is an int or a long, otherwise
\* the object exists with self.maxsize = m.
database_init(cls, a, m) ==
    built' = IF ~isinstance_int_long(m)
             THEN [arg |-> a, cls |-> cls, err |-> "TypeError", exists |-> FALSE,
                   maxsize |-> None]
             ELSE [arg |-> a, cls |-> cls, err |-> "none", exists |-> TRUE,
                   maxsize |-> m]

\* DatabaseConnectionPool(maxsize) or DatabaseConnectionPool().
DatabaseConnectionPool_init ==
    /\ built.cls = "none"
    /\ database_init("DatabaseConnectionPool", built.arg,
                     IF built.arg = Omitted THEN maxsize_default ELSE built.arg)
    /\ UNCHANGED <<inuse, fetch, wait>>

\* PostgresConnectionPool(maxsize=..., **kwargs) or PostgresConnectionPool(**kwargs).
PostgresConnectionPool_init ==
    /\ built.cls = "none"
    /\ database_init("PostgresConnectionPool", built.arg, kwargs_pop_maxsize(built.arg))
    /\ UNCHANGED <<inuse, fetch, wait>>

\* A caller is about to construct a pool with some argument.
ConstructInit ==
    /\ PoolInit
    /\ built \in [arg : Values \cup {Omitted}, cls : {"none"}, err : {"none"},
                  exists : {FALSE}, maxsize : {None}]
    /\ fetch = NoFetch
    /\ wait = NoWait

ConstructNext ==
    \/ DatabaseConnectionPool_init
    \/ PostgresConnectionPool_init

ConstructSpec == ConstructInit /\ [][ConstructNext]_vars

\* --------------------------------------------------------------- fetchiter

\* The result sets: the rows 1 .. n in order, and every sequence of at most
\* MaxRows rows drawn from two values (rows may repeat).
RowSeqs ==
    {[i \in 1 .. n |-> i] : n \in 0 .. MaxRows}
        \cup UNION {[1 .. n -> {1, 2}] : n \in 0 .. MaxRows}

\* cursor.fetchmany(): the next rows of the result set, at most b of them.
fetchmany(rest, b) == SubSeq(rest, 1, IF Len(rest) < b THEN Len(rest) ELSE b)

\* What is left of the result set after that batch.
after_fetchmany(rest, b) == SubSeq(rest, Len(fetchmany(rest, b)) + 1, Len(rest))

\* A loop that yields the first row of each batch only.
first_item_only(items) == IF items = <<>> THEN <<>> ELSE <<Head(items)>>

\* "for item in items: yield item": the rows a batch makes the generator yield.
items_to_yield(items) == items

\* The generator object that pool.fetchiter(query) returns, none of its body
\* run yet, on a cursor whose query has the rows R and whose batch size is b.
fetchiter(R, b) ==
    [at |-> "started", rows |-> R, b |-> b, rest |-> R, buf |-> <<>>, out |-> <<>>,
     fetches |-> 0, empties |-> 0, again |-> FALSE]

\* next() on the generator: it runs to its next yield.  Inside the for loop
\* it yields the next row of the batch; otherwise it calls fetchmany(), and
\* breaks out of the while loop on an empty batch, which ends the generator.
fetchiter_next ==
    /\ fetch.at = "started"
    /\ IF fetch.buf /= <<>>
       THEN fetch' = [fetch EXCEPT !.out = Append(@, Head(fetch.buf)),
                                   !.buf = Tail(@)]
       ELSE LET items == fetchmany(fetch.rest, fetch.b)
                todo == items_to_yield(items)
            IN  IF items = <<>>
                THEN fetch' = [fetch EXCEPT !.at = "finished", !.fetches = @ + 1,
                                            !.empties = @ + 1]
                ELSE fetch' = [fetch EXCEPT !.rest = after_fetchmany(fetch.rest, fetch.b),
                                            !.fetches = @ + 1,
                                            !.out = Append(@, Head(todo)),
                                            !.buf = Tail(todo)]
    /\ UNCHANGED <<inuse, built, wait>>

\* next() on the finished generator: StopIteration, and nothing else happens.
fetchiter_exhausted ==
    /\ fetch.at = "finished"
    /\ ~fetch.again
    /\ fetch' = [fetch EXCEPT !.again = TRUE]
    /\ UNCHANGED <<inuse, built, wait>>

FetchInit ==
    /\ PoolInit
    /\ built = NotBuilt
    /\ fetch \in {fetchiter(R, b) : R \in RowSeqs, b \in 1 .. MaxBatch}
    /\ wait = NoWait

FetchNext ==
    \/ fetchiter_next
    \/ fetchiter_exhausted

FetchSpec == FetchInit /\ [][FetchNext]_vars

\* ----------------------------------------------------- gevent_wait_callback

\* The results of conn.poll(): the three states of the protocol, and values
\* that are none of them.
Unrecognised == {"POLL_ERROR", "garbage"}

PollStates == {"POLL_OK", "POLL_READ", "POLL_WRITE"} \cup Unrecognised

Waits == {"wait_read", "wait_write"}

\* A callback that waits for the wrong direction.
after_poll_swapped(state) ==
    CASE state = "POLL_OK" -> "returned"
      [] state = "POLL_READ" -> "wait_write"
      [] state = "POLL_WRITE" -> "wait_read"
      [] OTHER -> "raised"

\* The body of the loop after "state = conn.poll()": break, wait_read(...),
\* wait_write(...) or raise OperationalError.
after_poll(state) ==
    CASE state = "POLL_OK" -> "returned"
      [] state = "POLL_READ" -> "wait_read"
      [] state = "POLL_WRITE" -> "wait_write"
      [] OTHER -> "raised"

\* The POLL_READ and POLL_WRITE results in the log.
Pending(log) == Cardinality({i \in 1 .. Len(log) : log[i] \in {"POLL_READ", "POLL_WRITE"}})

\* gevent_wait_callback(conn, timeout) has been called; tm tells whether a
\* timeout was given.  The log lists the polls by their result and the
\* waits that ended, in order.
gevent_wait_callback(tm) == [at |-> "polling", timeout |-> tm, log |-> <<>>, err |-> "none"]

\* state = conn.poll(), and what the loop does with it up to its next call
\* that can suspend the greenlet.
poll(state) ==
    /\ wait.at = "polling"
    /\ state \in {"POLL_READ", "POLL_WRITE"} => Pending(wait.log) < MaxPolls
    /\ wait' = [wait EXCEPT !.at = after_poll(state),
                            !.log = Append(@, state),
                            !.err = IF after_poll(state) = "raised"
                                    THEN "OperationalError" ELSE @]
    /\ UNCHANGED <<inuse, built, fetch>>

\* wait_read() or wait_write() returns: the descriptor is ready, and the
\* loop goes round.
wait_returns ==
    /\ wait.at \in Waits
    /\ wait' = [wait EXCEPT !.at = "polling", !.log = Append(@, wait.at)]
    /\ UNCHANGED <<inuse, built, fetch>>

\* wait_read() or wait_write() was given a timeout, which expires: the wait
\* raises gevent's timeout error, which leaves the callback.
wait_times_out ==
    /\ wait.at \in Waits
    /\ wait.timeout
    /\ wait' = [wait EXCEPT !.at = "raised", !.log = Append(@, wait.at),
                            !.err = "timeout"]
    /\ UNCHANGED <<inuse, built, fetch>>

WaitInit ==
    /\ PoolInit
    /\ built = NotBuilt
    /\ fetch = NoFetch
    /\ wait \in {gevent_wait_callback(tm) : tm \in BOOLEAN}

WaitNext ==
    \/ \E state \in PollStates : poll(state)
    \/ wait_returns
    \/ wait_times_out

WaitSpec == WaitInit /\ [][WaitNext]_vars

\* The connection answers every poll and every wait ends; after MaxPolls
\* results POLL_READ or POLL_WRITE the connection reports something else.
WaitFairSpec ==
    /\ WaitSpec
    /\ WF_vars(\E state \in PollStates : poll(state))
    /\ WF_vars(wait_returns \/ wait_times_out)

\* ------------------------------------------------------------- vocabulary

\* The connections the factory has returned.
Made == 1 .. made

\* Connection c is the local conn of the scope of some greenlet.
Held(c) == \E t \in Tasks : conn[t] = c

\* Connection c sits in the idle queue.
Idle(c) == c \in Range(pool)

\* The greenlets inside a scope whose get() has returned.
InScope == {t \in Tasks : pc[t] \in {"working", "commit", "rollback"}}

TypeOK ==
    /\ size \in Int /\ gets \in 0 .. MaxGets /\ puts \in 0 .. MaxGets
    /\ made \in 0 .. MaxGets /\ spawned \in 0 .. NumTasks
    /\ Range(pool) \subseteq Made /\ Range(getters) \subseteq Tasks
    /\ \A t \in Tasks : conn[t] \in Made \cup {NoConn}
    /\ \A t \in Tasks : (conn[t] /= NoConn) <=> (t \in InScope)
    /\ \A t \in Tasks : (pc[t] = "waiting") <=> (t \in Range(getters))

\* ------------------------------------------------------------------ claims

\* C1.  Bounded creation: the counter size stays within 0 .. maxsize, and the
\* connections that have been created and not yet closed never number more
\* than maxsize, whatever the greenlets do, the factory yielding or failing.
C1_BoundedCreation ==
    /\ 0 <= size
    /\ size <= maxsize
    /\ Cardinality({c \in Made : ~closed[c]}) <= maxsize

\* C1's case: more greenlets than maxsize have called get(); at the ceiling
\* one of them is inside the factory, one holds a connection and one waits.
C1_Witness ==
    /\ NumTasks > maxsize
    /\ size = maxsize
    /\ \E t \in Tasks : pc[t] = "creating"
    /\ \E t \in Tasks : pc[t] = "working"
    /\ \E t \in Tasks : pc[t] = "waiting"

\* C2.  No double release: no connection occurs twice in the idle queue, none
\* is idle and held at once, none is held by two greenlets, and a scope calls
\* put() at most once.
C2_NoDoubleRelease ==
    /\ \A c \in Conns : Occurrences(pool, c) <= 1
    /\ \A c \in Conns : ~(Idle(c) /\ Held(c))
    /\ \A c \in Conns : Cardinality({t \in Tasks : conn[t] = c}) <= 1
    /\ \A t \in Tasks : borrow[t].puts = 0
    /\ last.b.puts <= 1

\* C2's case: a connection released by one scope has been borrowed and
\* released again while another connection is held.
C2_Witness ==
    /\ last.ended
    /\ last.b.puts = 1
    /\ puts >= 2
    /\ made < gets
    /\ \E t \in Tasks : conn[t] /= NoConn

\* C3.  Ownership: every connection the factory has returned is in exactly
\* one of three states: held by a greenlet, in the idle queue, closed.
C3_Ownership ==
    \A c \in Made :
        Cardinality({k \in {"held", "idle", "closed"} :
                        \/ k = "held" /\ Held(c)
                        \/ k = "idle" /\ Idle(c)
                        \/ k = "closed" /\ closed[c]}) = 1

\* C4.  Commit path: a scope whose unit of work returned, and whose connection
\* is open when the scope ends, called commit() once and rollback() never,
\* and its connection is in the idle queue when the scope has ended.
C4_CommitPath ==
    (last.ended /\ last.b.uow = "ok" /\ ~closed[last.b.c])
        => /\ last.b.commits = 1
           /\ last.b.rollbacks = 0
           /\ Occurrences(pool, last.b.c) = 1

\* C4's case: a connection that went through the commit path was handed out
\* by a later get() and went through it again.
C4_Witness ==
    /\ last.ended
    /\ last.b.uow = "ok"
    /\ last.b.err = "none"
    /\ Idle(last.b.c)
    /\ made = 1
    /\ puts = 2

\* C5.  Rollback path: a scope whose unit of work raised on a connection that
\* was open then called rollback() once and commit() never, the error that
\* leaves it is the error of the unit of work, and its connection is in the
\* idle queue when it has ended if rollback() succeeded.
C5_RollbackPath ==
    (last.ended /\ last.b.uow = "raised" /\ ~last.b.dead)
        => /\ last.b.rollbacks = 1
           /\ last.b.commits = 0
           /\ last.b.err = "UnitOfWorkError"
           /\ ~last.b.reported => Occurrences(pool, last.b.c) = 1

\* C5's case: the unit of work raised, rollback() succeeded, the scope ended.
C5_Witness ==
    /\ last.ended
    /\ last.b.uow = "raised"
    /\ ~last.b.dead
    /\ ~last.b.reported
    /\ Idle(last.b.c)

\* C6.  Dead-connection path: a scope whose connection was closed when the
\* unit of work ended called neither commit() nor rollback() nor put(); it
\* ends with the commit-on-closed error when the unit of work returned; when
\* the unit of work raised it ends with that error, every connection that
\* was idle is closed and the idle queue is empty.  No closed connection is
\* in the idle queue.
C6_DeadConnectionPath ==
    /\ \A c \in Range(pool) : ~closed[c]
    /\ (last.ended /\ last.b.dead)
        => /\ last.b.commits = 0
           /\ last.b.rollbacks = 0
           /\ last.b.puts = 0
           /\ ~Idle(last.b.c)
           /\ last.b.uow = "ok" => last.b.err = "CommitOnClosedError"
           /\ last.b.uow = "raised"
                 => /\ last.b.err = "UnitOfWorkError"
                    /\ last.b.flushed
                    /\ pool = <<>>
                    /\ \A c \in last.idle : closed[c]

\* C6's case: the unit of work raised on a closed connection while another
\* connection was idle.
C6_Witness ==
    /\ last.ended
    /\ last.b.dead
    /\ last.b.uow = "raised"
    /\ last.idle /= {}

\* C7.  Isolation restore: a scope that asked for a level other than its
\* connection's runs its unit of work at the level asked for and puts the
\* connection back at the level it had; every idle connection, and every
\* connection get() hands out, is at its resting level.
C7_IsolationRestore ==
    /\ \A t \in InScope :
          borrow[t].asked /= NoLevel => level[conn[t]] = borrow[t].asked
    /\ (last.ended /\ last.b.puts = 1) => level[last.b.c] = last.b.entry
    /\ \A c \in Range(pool) : level[c] = DefaultLevel
    /\ \A t \in InScope : borrow[t].entry = DefaultLevel

\* C8.  No redundant set: a scope that asked for no level, or for the level
\* its connection had, never calls set_isolation_level and leaves the level
\* of the connection as it was.
C8_NoRedundantSet ==
    /\ \A t \in InScope :
          borrow[t].asked \in {NoLevel, borrow[t].entry}
              => borrow[t].sets = 0 /\ level[conn[t]] = borrow[t].entry
    /\ (last.ended /\ last.b.c /= NoConn /\ last.b.asked \in {NoLevel, last.b.entry})
          => last.b.sets = 0 /\ level[last.b.c] = last.b.entry

\* C8's case: a scope that asked for the level its connection had has ended
\* and put the connection back.
C8_Witness ==
    /\ last.ended
    /\ last.b.asked /= NoLevel
    /\ last.b.asked = last.b.entry
    /\ last.b.puts = 1

\* C9.  FIFO fairness: while greenlet a stays blocked in get(), a greenlet b
\* is granted a connection from the queue only if b was blocked before a; a
\* greenlet that calls get() after a blocked is not served ahead of a.
C9_FIFOFairness ==
    [][\A a, b \in Tasks :
          (/\ pc[a] = "waiting" /\ pc'[a] = "waiting"
           /\ pc[b] \in {"idle", "waiting"}
           /\ conn[b] = NoConn /\ conn'[b] /= NoConn)
              => /\ pc[b] = "waiting"
                 /\ Position(getters, b) < Position(getters, a)]_vars

\* C10.  Waiting greenlets get their turn: under the fair scheduler every
\* greenlet inside get() obtains a connection or a creation error.
C10_WaitersServed ==
    \A t \in Tasks : (pc[t] \in {"waiting", "creating"}) ~> (pc[t] \notin {"waiting", "creating"})

\* C11.  Construction rejects every maxsize that is not a positive integer:
\* a pool object exists only with a maxsize that is an integer greater than
\* zero; a non-integer, an omitted maxsize of PostgresConnectionPool, zero and
\* the negative integers raise at construction.
C11_RejectsNonPositive ==
    /\ built.exists => isinstance_int_long(built.maxsize) /\ built.maxsize.val > 0
    /\ built.cls /= "none" /\ ~built.exists => built.err = "TypeError"
    /\ built.cls = "PostgresConnectionPool" /\ built.arg = Omitted => ~built.exists

\* The greenlets whose factory call is in progress.
Creating == {t \in Tasks : pc[t] = "creating"}

\* C12.  Creation failure does not consume capacity: size counts the
\* connections the factory has returned and the factory calls in progress,
\* and nothing else, so a failed call leaves size as if it had not been made
\* and maxsize connections can still be created; the scope of a failed call
\* ends with the factory's error, without a connection, without running the
\* unit of work and without a put().
C12_FailureKeepsCapacity ==
    /\ size = made + Cardinality(Creating)
    /\ last.ended /\ last.b.err = "CreationError" =>
           /\ last.b.c = NoConn
           /\ last.b.uow = "none"
           /\ last.b.puts = 0
           /\ ~last.b.flushed
    /\ last.ended /\ last.b.c = NoConn => last.b.err = "CreationError"

\* C12's case: a factory call has failed (one more get() than connections,
\* though no call waits, none is in the factory and no connection was ever
\* put back) and maxsize connections were created all the same.
C12_Witness ==
    /\ made = maxsize
    /\ gets > made
    /\ puts = 0
    /\ Cardinality(InScope) = maxsize
    /\ Creating = {}
    /\ getters = <<>>

\* C13.  Lazy fetch: at every point the rows yielded so far, the rows of the
\* current batch not yet yielded and the rows not yet fetched make up the
\* result set, in order; fetchiter() sees one empty batch at most and is
\* finished exactly then, having yielded the result set and asked for as many
\* batches as it takes to hold the rows and one more; a finished generator
\* that is asked again is still finished, with the same rows yielded.
C13_LazyFetch ==
    fetch.at /= "none" =>
        /\ fetch.out \o fetch.buf \o fetch.rest = fetch.rows
        /\ Len(fetch.buf) < fetch.b
        /\ fetch.empties <= 1
        /\ (fetch.at = "finished") <=> (fetch.empties = 1)
        /\ fetch.at = "finished" =>
               /\ fetch.out = fetch.rows
               /\ fetch.fetches = (Len(fetch.rows) + fetch.b - 1) \div fetch.b + 1
        /\ fetch.at /= "finished" =>
               fetch.fetches = (Len(fetch.out) + fetch.b - 1) \div fetch.b
        /\ fetch.again => fetch.at = "finished"

\* C13's case: the rows 1 .. 5 fetched in batches of 2 have all been yielded,
\* and the finished generator has been asked for more.
C13_Witness ==
    /\ fetch.rows = <<1, 2, 3, 4, 5>>
    /\ fetch.b = 2
    /\ fetch.at = "finished"
    /\ fetch.again
    /\ fetch.out = <<1, 2, 3, 4, 5>>

\* C14.  Every scope that ends has either committed and returned its
\* connection, or rolled back and returned it, or discarded it: a connection
\* is put on the idle queue only by a scope in which commit() or rollback()
\* returned normally on it.
C14_PutOnlyAfterCommitOrRollback ==
    LET b == last.b
        committed == b.commits = 1 /\ b.err = "none"
        rolledback == b.rollbacks = 1 /\ ~b.reported
    IN  last.ended /\ b.c /= NoConn =>
            /\ ~(committed /\ rolledback)
            /\ b.puts <= 1
            /\ b.puts = 1 => committed \/ rolledback

\* C15.  Rollback failure: a scope whose unit of work raised and whose
\* rollback() failed has reported that failure to the hub, has made no put(),
\* has set no isolation level after the one its entry may have set, and the
\* connection is not in the idle queue; and every scope whose unit of work
\* raised ends with the error of the unit of work.
C15_RollbackFailure ==
    LET b == last.b
        entrysets == IF b.asked \notin {NoLevel, b.entry} THEN 1 ELSE 0
    IN  last.ended =>
            /\ b.reported =>
                   /\ b.uow = "raised"
                   /\ b.rollbacks = 1
                   /\ b.puts = 0
                   /\ b.sets = entrysets
                   /\ ~Idle(b.c)
                   /\ b.err = "UnitOfWorkError"
            /\ b.uow = "raised" => b.err = "UnitOfWorkError"
            /\ b.uow = "raised" /\ ~b.dead /\ b.puts = 0 => b.reported

\* C15's case: the unit of work raised in a scope that had set an isolation
\* level, rollback() failed, and the connection is still open.
C15_Witness ==
    /\ last.ended
    /\ last.b.reported
    /\ last.b.asked \notin {NoLevel, last.b.entry}
    /\ ~closed[last.b.c]

\* C16.  No greenlet is blocked in get() while size < maxsize: whenever a
\* greenlet waits in pool.get(), the ceiling is reached.
C16_BlockedOnlyAtCeiling ==
    \A t \in Tasks : pc[t] = "waiting" => size >= maxsize

\* Greenlet t calls get() in this step.
CallsGet(t) == pc[t] = "idle" /\ pc'[t] /= "idle"

\* C17.  The rule of get(): a call made while size >= maxsize or the idle
\* queue is not empty takes from the queue (the head if there is one, else
\* it waits), calls no factory and leaves size alone; any other call
\* increments size and enters the factory, leaving the queue alone.  So a
\* factory call starts only with the queue empty and size < maxsize.  Each
\* call of get() adds one to gets, whether it then returns, blocks or fails,
\* and nothing else changes gets.
C17_GetRule ==
    [][/\ \A t \in Tasks :
            /\ CallsGet(t) =>
                   /\ gets' = gets + 1
                   /\ IF size >= maxsize \/ pool /= <<>>
                      THEN /\ size' = size
                           /\ made' = made
                           /\ pc'[t] /= "creating"
                           /\ IF pool /= <<>>
                              THEN /\ pc'[t] = "working"
                                   /\ conn'[t] = Head(pool)
                                   /\ pool' = Tail(pool)
                              ELSE /\ pc'[t] = "waiting"
                                   /\ pool' = pool
                      ELSE /\ size' = size + 1
                           /\ pc'[t] = "creating"
                           /\ pool' = pool
            /\ pc'[t] = "creating" /\ pc[t] /= "creating" =>
                   CallsGet(t) /\ pool = <<>> /\ size < maxsize
       /\ gets' /= gets => \E t \in Tasks : CallsGet(t)
      ]_vars

\* C17's case: calls of get() have gone each way: the one connection made
\* was put back and is held again, one greenlet is inside the factory and
\* one waits.
C17_Witness ==
    /\ made = 1
    /\ puts = 1
    /\ InScope /= {}
    /\ Creating /= {}
    /\ getters /= <<>>

WaitFor(state) == IF state = "POLL_READ" THEN "wait_read" ELSE "wait_write"

\* The order of polls and waits that C19 describes, on the log of a call.
C19_Protocol ==
    LET log == wait.log
        n == Len(log)
    IN  /\ \A i \in 1 .. n :
              /\ log[i] \in {"POLL_READ", "POLL_WRITE"} =>
                     /\ i < n => log[i + 1] = WaitFor(log[i])
                     /\ i = n => wait.at = WaitFor(log[i])
              /\ log[i] \in Waits =>
                     /\ i > 1 /\ log[i] = WaitFor(log[i - 1])
                     /\ i < n => log[i + 1] \in PollStates
                     /\ i = n => \/ wait.at = "polling"
                                 \/ wait.at = "raised" /\ wait.err = "timeout"
              /\ log[i] \in Unrecognised \cup {"POLL_OK"} => i = n
        /\ IF n = 0 THEN wait.at \in {"polling", "none"} ELSE log[1] \in PollStates
        /\ (wait.at = "returned") <=> (n > 0 /\ log[n] = "POLL_OK")
        /\ (wait.at = "raised" /\ wait.err = "OperationalError")
              <=> (n > 0 /\ log[n] \in Unrecognised)
        /\ wait.err = "timeout" => wait.timeout /\ wait.at = "raised"

\* C19.  The wait callback: it returns only after a poll that reported
\* POLL_OK; each POLL_READ (POLL_WRITE) is followed by one wait_read
\* (wait_write), and a wait that returns by another poll; the first result
\* that is none of the three raises OperationalError, with no poll or wait
\* after it; and the call ends when the connection reports POLL_OK or an
\* unrecognised state.
C19_WaitCallback ==
    /\ []C19_Protocol
    /\ <>(wait.at \in {"returned", "raised"})

\* C19's case: a call that met POLL_READ and POLL_WRITE, waited for each and
\* then returned on POLL_OK.
C19_Witness ==
    /\ wait.at = "returned"
    /\ \E i \in 1 .. Len(wait.log) : wait.log[i] = "wait_read"
    /\ \E i \in 1 .. Len(wait.log) : wait.log[i] = "wait_write"

\* The connections held by scopes, those in the idle queue and the factory
\* calls in progress.
Accounted == Cardinality(InScope) + Len(pool) + Cardinality(Creating)

\* C20.  Accounting: in every state the connections held, the idle
\* connections and the factory calls in progress number at most size, size
\* is at most maxsize, and puts <= gets; only a failed factory call
\* decrements size, by one, and the exit of a scope that had a connection,
\* whether it returns it, discards it or flushes the queue, leaves size alone.
C20_Accounting ==
    /\ [](/\ Accounted <= size
          /\ size <= maxsize
          /\ puts <= gets)
    /\ [][/\ size' < size =>
                /\ size' = size - 1
                /\ last'.ended /\ last'.b.err = "CreationError"
                /\ \E t \in Creating : pc'[t] = "idle"
          /\ last'.ended /\ last'.b.c /= NoConn => size' = size
         ]_vars

\* C20's case: a scope has just discarded its connection, so that fewer
\* connections are accounted for than size says.
C20_Witness ==
    /\ last.ended
    /\ last.b.c /= NoConn
    /\ last.b.puts = 0
    /\ Accounted < size
    /\ puts < gets

=============================================================================
